---- MODULE Spec2Model ----
(***************************************************************************)
(* Development Plan Generator (src/app.py).                                *)
(*                                                                         *)
(* The module models                                                       *)
(*   - find_lowest_competencies (the Competency Ranker),                   *)
(*   - get_random_tips (the Tip Selector),                                 *)
(*   - the "Generate Development Reports" button handler.                  *)
(*                                                                         *)
(* Python str values are TLA+ strings; where the code looks inside a str   *)
(* (strip, lower, the `in` substring test, slicing) the model works on the *)
(* spelling of the string, a sequence of one-character strings (Chars).    *)
(* Scores are the sheet's floats times ten (2.5 is 25).                    *)
(***************************************************************************)
EXTENDS Integers, Sequences, FiniteSets, TLC

\* ------------------------------------------------------------------ bounds
\* Scores of the ranker's inputs range over 1..MaxScore (or are missing).
MaxScore == 2
\* Largest number of rows of a tip table given to get_random_tips.
MaxRows == 2
\* Largest number of candidate rows the handler iterates over in one request.
MaxCandidates == 2
\* Largest number of repository files uploaded in one request.
MaxFiles == 4

\* ----------------------------------------------------------- Python values
\* float('nan') in a numeric column: what pd.notna rejects.
NaN == -1
\* NaN in a text (object) column.
NaNText == "NaN"
\* Python's None.
None == "None"

\* The spelling of every str the model works with.
Chars ==
    "Manages Stakeholders" :> <<"M", "a", "n", "a", "g", "e", "s", " ", "S", "t", "a", "k", "e", "h", "o", "l", "d", "e", "r", "s">> @@
    "Steers Change" :> <<"S", "t", "e", "e", "r", "s", " ", "C", "h", "a", "n", "g", "e">> @@
    "Leads People" :> <<"L", "e", "a", "d", "s", " ", "P", "e", "o", "p", "l", "e">> @@
    "Drives Results" :> <<"D", "r", "i", "v", "e", "s", " ", "R", "e", "s", "u", "l", "t", "s">> @@
    "Solves Challenges" :> <<"S", "o", "l", "v", "e", "s", " ", "C", "h", "a", "l", "l", "e", "n", "g", "e", "s">> @@
    "Thinks Strategically" :> <<"T", "h", "i", "n", "k", "s", " ", "S", "t", "r", "a", "t", "e", "g", "i", "c", "a", "l", "l", "y">> @@
    "leads people" :> <<"l", "e", "a", "d", "s", " ", "p", "e", "o", "p", "l", "e">> @@
    " Leads People " :> <<" ", "L", "e", "a", "d", "s", " ", "P", "e", "o", "p", "l", "e", " ">> @@
    " leads people " :> <<" ", "l", "e", "a", "d", "s", " ", "p", "e", "o", "p", "l", "e", " ">> @@
    "" :> <<>> @@
    " " :> <<" ">> @@
    "Competency Name" :> <<"C", "o", "m", "p", "e", "t", "e", "n", "c", "y", " ", "N", "a", "m", "e">> @@
    "70% Development Tips" :> <<"7", "0", "%", " ", "D", "e", "v", "e", "l", "o", "p", "m", "e", "n", "t", " ", "T", "i", "p", "s">> @@
    "20% Development Tips" :> <<"2", "0", "%", " ", "D", "e", "v", "e", "l", "o", "p", "m", "e", "n", "t", " ", "T", "i", "p", "s">> @@
    " Competency Name " :> <<" ", "C", "o", "m", "p", "e", "t", "e", "n", "c", "y", " ", "N", "a", "m", "e", " ">> @@
    "70% Development Tips " :> <<"7", "0", "%", " ", "D", "e", "v", "e", "l", "o", "p", "m", "e", "n", "t", " ", "T", "i", "p", "s", " ">> @@
    "sample_repository_apply.xlsx" :> <<"s", "a", "m", "p", "l", "e", "_", "r", "e", "p", "o", "s", "i", "t", "o", "r", "y", "_", "a", "p", "p", "l", "y", ".", "x", "l", "s", "x">> @@
    "sample_repository_guide.xlsx" :> <<"s", "a", "m", "p", "l", "e", "_", "r", "e", "p", "o", "s", "i", "t", "o", "r", "y", "_", "g", "u", "i", "d", "e", ".", "x", "l", "s", "x">> @@
    "sample_repository_shape.xlsx" :> <<"s", "a", "m", "p", "l", "e", "_", "r", "e", "p", "o", "s", "i", "t", "o", "r", "y", "_", "s", "h", "a", "p", "e", ".", "x", "l", "s", "x">> @@
    "SHAPE tips.xlsx" :> <<"S", "H", "A", "P", "E", " ", "t", "i", "p", "s", ".", "x", "l", "s", "x">> @@
    "tips.xlsx" :> <<"t", "i", "p", "s", ".", "x", "l", "s", "x">> @@
    "guide_unnamed.xlsx" :> <<"g", "u", "i", "d", "e", "_", "u", "n", "n", "a", "m", "e", "d", ".", "x", "l", "s", "x">> @@
    "apply_guide.xlsx" :> <<"a", "p", "p", "l", "y", "_", "g", "u", "i", "d", "e", ".", "x", "l", "s", "x">> @@
    "apply" :> <<"a", "p", "p", "l", "y">> @@
    "guide" :> <<"g", "u", "i", "d", "e">> @@
    "shape" :> <<"s", "h", "a", "p", "e">> @@
    "John Doe" :> <<"J", "o", "h", "n", " ", "D", "o", "e">> @@
    "Jane Smith" :> <<"J", "a", "n", "e", " ", "S", "m", "i", "t", "h">> @@
    "Candidate 3" :> <<"C", "a", "n", "d", "i", "d", "a", "t", "e", " ", "3">> @@
    "Candidate 4" :> <<"C", "a", "n", "d", "i", "d", "a", "t", "e", " ", "4">>

UpperCase == <<"A","B","C","D","E","F","G","H","I","J","K","L","M",
               "N","O","P","Q","R","S","T","U","V","W","X","Y","Z">>
LowerCase == <<"a","b","c","d","e","f","g","h","i","j","k","l","m",
               "n","o","p","q","r","s","t","u","v","w","x","y","z">>
Whitespace == {" ", "\t", "\n", "\r"}

\* str.lower() on one character.
LowerChar(c) ==
    IF \E i \in 1..26 : UpperCase[i] = c
    THEN LowerCase[CHOOSE i \in 1..26 : UpperCase[i] = c]
    ELSE c

\* str.lower(): every cased character replaced by its lowercase.
lower(s) == [i \in 1..Len(s) |-> LowerChar(s[i])]

\* str.strip(): leading and trailing whitespace removed.
strip(s) ==
    LET keep == {i \in 1..Len(s) : s[i] \notin Whitespace}
    IN  IF keep = {} THEN <<>>
        ELSE LET lo == CHOOSE i \in keep : \A j \in keep : i <= j
                 hi == CHOOSE i \in keep : \A j \in keep : j <= i
             IN  SubSeq(s, lo, hi)

\* Python's `sub in s` on strs.
contains(sub, s) ==
    \E i \in 0..(Len(s) - Len(sub)) : SubSeq(s, i + 1, i + Len(sub)) = sub

\* ------------------------------------------------ find_lowest_competencies
COMPETENCIES == <<"Manages Stakeholders", "Steers Change", "Leads People",
                  "Drives Results", "Solves Challenges", "Thinks Strategically">>

notna(x) == x # NaN

\* The dict comprehension: the (competency, score) items of the defined
\* scores, in the order of `competencies` (a dict keeps insertion order).
ScoreItems(row, competencies) ==
    LET F[i \in 0..Len(competencies)] ==
            IF i = 0 THEN <<>>
            ELSE IF notna(row[competencies[i]])
                 THEN Append(F[i - 1], <<competencies[i], row[competencies[i]]>>)
                 ELSE F[i - 1]
    IN  F[Len(competencies)]

\* Fault injection for C1: the insertion puts an item before the elements of
\* equal score, as an unstable sort may.
InsertByScore_Unstable(sorted, item) ==
    LET before == {i \in 1..Len(sorted) : sorted[i][2] < item[2]}
        n == Cardinality(before)
    IN  SubSeq(sorted, 1, n) \o <<item>> \o SubSeq(sorted, n + 1, Len(sorted))

\* One step of a stable insertion: item goes after every element whose key
\* is not greater than its own.
InsertByScore(sorted, item) ==
    LET before == {i \in 1..Len(sorted) : sorted[i][2] <= item[2]}
        n == Cardinality(before)
    IN  SubSeq(sorted, 1, n) \o <<item>> \o SubSeq(sorted, n + 1, Len(sorted))

\* sorted(items, key=lambda item: item[1]): ascending and stable.
SortedByScore(items) ==
    LET F[i \in 0..Len(items)] ==
            IF i = 0 THEN <<>> ELSE InsertByScore(F[i - 1], items[i])
    IN  F[Len(items)]

\* Fault injection for C2: with one defined score the second slot repeats
\* the first instead of being None.
find_lowest_competencies_Repeat(row, competencies) ==
    LET sorted_competencies == SortedByScore(ScoreItems(row, competencies))
        lowest_1 == IF Len(sorted_competencies) > 0
                    THEN sorted_competencies[1][1] ELSE None
        lowest_2 == IF Len(sorted_competencies) > 1
                    THEN sorted_competencies[2][1] ELSE lowest_1
    IN  <<lowest_1, lowest_2>>

find_lowest_competencies(row, competencies) ==
    LET sorted_competencies == SortedByScore(ScoreItems(row, competencies))
        lowest_1 == IF Len(sorted_competencies) > 0
                    THEN sorted_competencies[1][1] ELSE None
        lowest_2 == IF Len(sorted_competencies) > 1
                    THEN sorted_competencies[2][1] ELSE None
    IN  <<lowest_1, lowest_2>>

\* ------------------------------------------------------------ tip tables
\* A DataFrame of a tip repository: its column labels, its rows (one cell
\* per column), and the dtype pandas gave the competency-name column
\* (float64 when no cell of it holds text, object otherwise).
NameLabel == "Competency Name"
Tip70Label == "70% Development Tips"
Tip20Label == "20% Development Tips"
Sentinel == "N/A"

HasColumn(df, label) == \E i \in 1..Len(df.columns) : df.columns[i] = label
ColumnOf(df, label) == CHOOSE i \in 1..Len(df.columns) : df.columns[i] = label

\* repo_df.dropna(subset=[label], inplace=True): the rows whose cell in the
\* column is NaN are removed; the column keeps its dtype.
dropna_subset(df, label) ==
    [df EXCEPT !.rows = SelectSeq(df.rows,
                            LAMBDA r : r[ColumnOf(df, label)] # NaNText)]

\* s.strip().lower(), for every str of the model.
strip_lower == [s \in DOMAIN Chars |-> lower(strip(Chars[s]))]

\* Fault injection for C5: the target is lower-cased but not stripped.
NameMatches_TargetNotStripped(cell, competency) ==
    strip_lower[cell] = lower(Chars[competency])

\* series.str.strip().str.lower() == competency.strip().lower(), for one cell.
NameMatches(cell, competency) == strip_lower[cell] = strip_lower[competency]

\* repo_df[mask]: the rows whose competency name matches.
FilterByCompetency(df, competency) ==
    SelectSeq(df.rows,
              LAMBDA r : NameMatches(r[ColumnOf(df, NameLabel)], competency))

\* Fault injection for C3: both lists are read from the 70% column.
TipList_SameColumn(df, rows, label) ==
    LET F[i \in 0..Len(rows)] ==
            IF i = 0 THEN <<>>
            ELSE IF rows[i][ColumnOf(df, Tip70Label)] # NaNText
                 THEN Append(F[i - 1], rows[i][ColumnOf(df, Tip70Label)])
                 ELSE F[i - 1]
    IN  F[Len(rows)]

\* comp_df[label].dropna().tolist()
TipList(df, rows, label) ==
    LET F[i \in 0..Len(rows)] ==
            IF i = 0 THEN <<>>
            ELSE IF rows[i][ColumnOf(df, label)] # NaNText
                 THEN Append(F[i - 1], rows[i][ColumnOf(df, label)])
                 ELSE F[i - 1]
    IN  F[Len(rows)]

\* random.choice(tips) if tips else "N/A": every value the call can return.
ChoiceOrSentinel(tips) ==
    IF Len(tips) > 0 THEN {tips[i] : i \in 1..Len(tips)} ELSE {Sentinel}

Raised(exc, df) ==
    [exc |-> exc, repo_df |-> df, tips_70 |-> <<>>, tips_20 |-> <<>>,
     tip_70 |-> None, tip_20 |-> None]

\* Every outcome of get_random_tips(repo_df, competency): the returned pair
\* with the two candidate lists and the frame as dropna left it, or the
\* exception the call raises (KeyError for a column label the frame does not
\* have; AttributeError from the .str accessor on a float64 column).
get_random_tips(repo_df, competency) ==
    IF ~HasColumn(repo_df, NameLabel) THEN {Raised("KeyError", repo_df)}
    ELSE LET df == dropna_subset(repo_df, NameLabel) IN
         IF df.dtype # "object" THEN {Raised("AttributeError", df)}
         ELSE LET comp_rows == FilterByCompetency(df, competency) IN
              IF ~HasColumn(df, Tip70Label) \/ ~HasColumn(df, Tip20Label)
              THEN {Raised("KeyError", df)}
              ELSE LET tips_70 == TipList(df, comp_rows, Tip70Label)
                       tips_20 == TipList(df, comp_rows, Tip20Label)
                   IN  {[exc |-> "none", repo_df |-> df,
                         tips_70 |-> tips_70, tips_20 |-> tips_20,
                         tip_70 |-> t70, tip_20 |-> t20] :
                            t70 \in ChoiceOrSentinel(tips_70),
                            t20 \in ChoiceOrSentinel(tips_20)}

\* -------------------------------------------------------------- the files
\* f'{template}{level}' for the templates of create_sample_repo_file.
fstring ==
    <<"70% Tip A for ", "Apply">> :> "70% Tip A for Apply" @@
    <<"70% Tip B for ", "Apply">> :> "70% Tip B for Apply" @@
    <<"70% Tip C for ", "Apply">> :> "70% Tip C for Apply" @@
    <<"70% Tip D for ", "Apply">> :> "70% Tip D for Apply" @@
    <<"20% Tip X for ", "Apply">> :> "20% Tip X for Apply" @@
    <<"20% Tip Y for ", "Apply">> :> "20% Tip Y for Apply" @@
    <<"20% Tip Z for ", "Apply">> :> "20% Tip Z for Apply" @@
    <<"20% Tip W for ", "Apply">> :> "20% Tip W for Apply" @@
    <<"70% Tip A for ", "Guide">> :> "70% Tip A for Guide" @@
    <<"70% Tip B for ", "Guide">> :> "70% Tip B for Guide" @@
    <<"70% Tip C for ", "Guide">> :> "70% Tip C for Guide" @@
    <<"70% Tip D for ", "Guide">> :> "70% Tip D for Guide" @@
    <<"20% Tip X for ", "Guide">> :> "20% Tip X for Guide" @@
    <<"20% Tip Y for ", "Guide">> :> "20% Tip Y for Guide" @@
    <<"20% Tip Z for ", "Guide">> :> "20% Tip Z for Guide" @@
    <<"20% Tip W for ", "Guide">> :> "20% Tip W for Guide" @@
    <<"70% Tip A for ", "Shape">> :> "70% Tip A for Shape" @@
    <<"70% Tip B for ", "Shape">> :> "70% Tip B for Shape" @@
    <<"70% Tip C for ", "Shape">> :> "70% Tip C for Shape" @@
    <<"70% Tip D for ", "Shape">> :> "70% Tip D for Shape" @@
    <<"20% Tip X for ", "Shape">> :> "20% Tip X for Shape" @@
    <<"20% Tip Y for ", "Shape">> :> "20% Tip Y for Shape" @@
    <<"20% Tip Z for ", "Shape">> :> "20% Tip Z for Shape" @@
    <<"20% Tip W for ", "Shape">> :> "20% Tip W for Shape"

\* The sheet create_sample_repo_file(level) writes: the last row is blank.
create_sample_repo_file(level) ==
    [columns |-> <<NameLabel, Tip70Label, Tip20Label>>,
     rows |-> <<
       <<"Manages Stakeholders", fstring[<<"70% Tip A for ", level>>],
                                 fstring[<<"20% Tip X for ", level>>]>>,
       <<"Manages Stakeholders", fstring[<<"70% Tip B for ", level>>],
                                 fstring[<<"20% Tip Y for ", level>>]>>,
       <<"Leads People", fstring[<<"70% Tip C for ", level>>],
                         fstring[<<"20% Tip Z for ", level>>]>>,
       <<"Leads People", fstring[<<"70% Tip D for ", level>>],
                         fstring[<<"20% Tip W for ", level>>]>>,
       <<"", "", "">> >>]

\* pd.read_excel: an empty cell is read as NaN (a cell of blanks stays a
\* str), and a column no cell of which holds text gets dtype float64.
read_excel(sheet) ==
    LET rows == [i \in 1..Len(sheet.rows) |->
                    [j \in 1..Len(sheet.rows[i]) |->
                        IF sheet.rows[i][j] = "" THEN NaNText
                        ELSE sheet.rows[i][j]]]
    IN  [columns |-> sheet.columns,
         rows |-> rows,
         dtype |-> IF rows # <<>> /\ \A i \in 1..Len(rows) : rows[i][1] = NaNText
                   THEN "float64" ELSE "object"]

\* The scores of the two candidates of create_sample_candidate_file.
SampleScores ==
    << [c \in {COMPETENCIES[i] : i \in 1..Len(COMPETENCIES)} |->
          CASE c = "Manages Stakeholders" -> 25
            [] c = "Steers Change" -> 31
            [] c = "Leads People" -> 18
            [] c = "Drives Results" -> 45
            [] c = "Solves Challenges" -> 21
            [] c = "Thinks Strategically" -> 33],
       [c \in {COMPETENCIES[i] : i \in 1..Len(COMPETENCIES)} |->
          CASE c = "Manages Stakeholders" -> 41
            [] c = "Steers Change" -> 42
            [] c = "Leads People" -> 48
            [] c = "Drives Results" -> 32
            [] c = "Solves Challenges" -> 43
            [] c = "Thinks Strategically" -> 45] >>

\* ----------------------------------------------------------- the inputs
\* A score row with only the competencies of `keep` filled in.
Masked(scores, keep) ==
    [c \in DOMAIN scores |-> IF c \in keep THEN scores[c] ELSE NaN]

\* Score rows of the candidate sheets given to the handler: the sample's two
\* rows, and the first with one score left, and with none.
ScoreRows ==
    {SampleScores[1], SampleScores[2],
     Masked(SampleScores[1], {"Leads People"}),
     Masked(SampleScores[1], {})}

CandidateNames == <<"John Doe", "Jane Smith", "Candidate 3", "Candidate 4">>
CandidateLevels == {"Apply", "Guide", "Shape", "Explore"}

\* The rows the i-th row of a candidate sheet ranges over.
CandidateRows(i) ==
    {[c \in {"Candidate Name", "Level"} \cup DOMAIN s |->
        CASE c = "Candidate Name" -> CandidateNames[i]
          [] c = "Level" -> l
          [] OTHER -> s[c]] : l \in CandidateLevels, s \in ScoreRows}

\* The repository files a user uploads: the three sample files, a Shape
\* file whose name is upper case and whose first header has blanks around
\* it, a Guide file whose competency column was left empty, a file whose
\* name carries no level, and one whose name carries two.
RepoFiles ==
    {[name |-> "sample_repository_apply.xlsx",
      sheet |-> create_sample_repo_file("Apply")],
     [name |-> "sample_repository_guide.xlsx",
      sheet |-> create_sample_repo_file("Guide")],
     [name |-> "sample_repository_shape.xlsx",
      sheet |-> create_sample_repo_file("Shape")],
     [name |-> "SHAPE tips.xlsx",
      sheet |-> [create_sample_repo_file("Shape") EXCEPT
                    !.columns = <<" Competency Name ", Tip70Label, Tip20Label>>]],
     [name |-> "guide_unnamed.xlsx",
      sheet |-> [create_sample_repo_file("Guide") EXCEPT
                    !.rows = [i \in 1..5 |->
                        <<"", create_sample_repo_file("Guide").rows[i][2],
                              create_sample_repo_file("Guide").rows[i][3]>>]]],
     [name |-> "tips.xlsx",
      sheet |-> create_sample_repo_file("Guide")],
     [name |-> "apply_guide.xlsx",
      sheet |-> create_sample_repo_file("Apply")]}

Uploads == UNION {[1..n -> RepoFiles] : n \in 0..MaxFiles}

\* --------------------------------------------------------- the handler
\* The loop of lines 180-186: each file goes to the first level whose word
\* its lower-cased name contains; a later file of a level replaces an
\* earlier one.
LevelOfName(name) ==
    IF contains(Chars["apply"], lower(Chars[name])) THEN "Apply"
    ELSE IF contains(Chars["guide"], lower(Chars[name])) THEN "Guide"
    ELSE IF contains(Chars["shape"], lower(Chars[name])) THEN "Shape"
    ELSE None

\* What the loop does with each file of RepoFiles: its level and its frame.
Loaded ==
    [f \in RepoFiles |->
        [level |-> LevelOfName(f.name), df |-> read_excel(f.sheet)]]

LoadRepos(files) ==
    LET F[i \in 0..Len(files)] ==
            IF i = 0 THEN <<>>
            ELSE IF Loaded[files[i]].level = None THEN F[i - 1]
                 ELSE (Loaded[files[i]].level :> Loaded[files[i]].df) @@ F[i - 1]
    IN  F[Len(files)]

\* Python's truth value of a str or None.
Truthy(x) == x # None /\ x # ""

\* res['Candidate Name'][:30]
SheetTitleLen == 30
SheetTitle(name) ==
    SubSeq(Chars[name], 1,
           IF Len(Chars[name]) < SheetTitleLen THEN Len(Chars[name])
           ELSE SheetTitleLen)

\* Fault injection for C10: the sheets are made in reverse order.
generate_formatted_excel_Reversed(results) ==
    [i \in 1..Len(results) |->
        LET res == results[Len(results) + 1 - i] IN
        [title |-> SheetTitle(res["Candidate Name"]),
         B3 |-> res["Candidate Name"],
         B4 |-> res["Level"],
         A6 |-> res["Lowest Competency 1"],
         B7 |-> res["Tip 1 (70%)"],
         B8 |-> res["Tip 1 (20%)"],
         A10 |-> res["Lowest Competency 2"],
         B11 |-> res["Tip 2 (70%)"],
         B12 |-> res["Tip 2 (20%)"]]]

\* generate_formatted_excel: one sheet per result, in the order of results,
\* with the cells that carry data.
generate_formatted_excel(results) ==
    [i \in 1..Len(results) |->
        [title |-> SheetTitle(results[i]["Candidate Name"]),
         B3 |-> results[i]["Candidate Name"],
         B4 |-> results[i]["Level"],
         A6 |-> results[i]["Lowest Competency 1"],
         B7 |-> results[i]["Tip 1 (70%)"],
         B8 |-> results[i]["Tip 1 (20%)"],
         A10 |-> results[i]["Lowest Competency 2"],
         B11 |-> results[i]["Tip 2 (70%)"],
         B12 |-> results[i]["Tip 2 (20%)"]]]

\* ------------------------------------------------------------- the state
VARIABLES
    pc,                        \* "idle", "loop" (inside the for loop), "done"
    uploaded_candidates_file,  \* None or the uploaded file, as the click saw it
    n_repo_files,              \* len(uploaded_repo_files), as the click saw it
    repos,                     \* level -> DataFrame
    candidates_df,             \* the rows iterrows() has yielded so far
    lowest,                    \* <<low_comp_1, low_comp_2>> of the last ranked row
    final_results,             \* the records appended so far
    messages,                  \* st.error / st.warning / st.write / st.success calls
    report,                    \* the workbook handed to the download button
    download_offered,          \* whether the report's download button is shown
    r_pc, r_row, r_out,        \* a call of find_lowest_competencies
    t_pc, t_repo_df, t_competency, t_out   \* a call of get_random_tips

handlerVars == <<pc, uploaded_candidates_file, n_repo_files, repos,
                 candidates_df, lowest, final_results, messages, report,
                 download_offered>>
rankerVars == <<r_pc, r_row, r_out>>
selectorVars == <<t_pc, t_repo_df, t_competency, t_out>>
vars == <<handlerVars, rankerVars, selectorVars>>

Msg(kind, who) == [kind |-> kind, candidate |-> who]

HandlerIdle ==
    /\ pc = "idle"
    /\ uploaded_candidates_file = None
    /\ n_repo_files = 0
    /\ repos = <<>>
    /\ candidates_df = <<>>
    /\ lowest = <<None, None>>
    /\ final_results = <<>>
    /\ messages = <<>>
    /\ report = <<>>
    /\ download_offered = FALSE

RankerIdle ==
    /\ r_pc = "idle"
    /\ r_row = [c \in {} |-> NaN]
    /\ r_out = <<None, None>>

SelectorIdle ==
    /\ t_pc = "idle"
    /\ t_repo_df = [columns |-> <<>>, rows |-> <<>>, dtype |-> "object"]
    /\ t_competency = ""
    /\ t_out = Raised("pending", [columns |-> <<>>, rows |-> <<>>, dtype |-> "object"])

\* ------------------------------------------- the button handler's steps
\* Line 170-171: no candidate file.
ClickNoCandidates(files) ==
    /\ pc = "idle"
    /\ uploaded_candidates_file' = None
    /\ n_repo_files' = Len(files)
    /\ messages' = Append(messages, Msg("error: upload the candidate file", None))
    /\ pc' = "done"
    /\ UNCHANGED <<repos, candidates_df, lowest, final_results, report,
                   download_offered>>

\* Line 172-173: not exactly three repository files.
ClickWrongCount(files) ==
    /\ pc = "idle"
    /\ Len(files) # 3
    /\ uploaded_candidates_file' = "candidates.xlsx"
    /\ n_repo_files' = Len(files)
    /\ messages' = Append(messages, Msg("error: upload exactly 3 repositories", None))
    /\ pc' = "done"
    /\ UNCHANGED <<repos, candidates_df, lowest, final_results, report,
                   download_offered>>

\* Lines 179-190: the levels cannot all be identified; st.stop().
ClickUnidentified(files) ==
    /\ pc = "idle"
    /\ Len(files) = 3
    /\ Cardinality(DOMAIN LoadRepos(files)) # 3
    /\ uploaded_candidates_file' = "candidates.xlsx"
    /\ n_repo_files' = Len(files)
    /\ repos' = LoadRepos(files)
    /\ messages' = Append(messages, Msg("error: could not identify the files", None))
    /\ pc' = "done"
    /\ UNCHANGED <<candidates_df, lowest, final_results, report, download_offered>>

\* Fault injection for C9: the loop is entered without the check that three
\* levels were identified.
ClickLoaded_Unchecked(files) ==
    /\ pc = "idle"
    /\ Len(files) = 3
    /\ uploaded_candidates_file' = "candidates.xlsx"
    /\ n_repo_files' = Len(files)
    /\ repos' = LoadRepos(files)
    /\ messages' = Append(messages, Msg("repositories loaded", None))
    /\ final_results' = <<>>
    /\ pc' = "loop"
    /\ UNCHANGED <<candidates_df, lowest, report, download_offered>>

\* Lines 177-198: the repositories are loaded and the loop is entered.
ClickLoaded(files) ==
    /\ pc = "idle"
    /\ Len(files) = 3
    /\ Cardinality(DOMAIN LoadRepos(files)) = 3
    /\ uploaded_candidates_file' = "candidates.xlsx"
    /\ n_repo_files' = Len(files)
    /\ repos' = LoadRepos(files)
    /\ messages' = Append(messages, Msg("repositories loaded", None))
    /\ final_results' = <<>>
    /\ pc' = "loop"
    /\ UNCHANGED <<candidates_df, lowest, report, download_offered>>

\* Fault injection for C7: an unknown level ends the loop (break for continue).
SkipUnknownLevel_Break(row) ==
    /\ pc = "loop"
    /\ Len(candidates_df) < MaxCandidates
    /\ row["Level"] \notin DOMAIN repos
    /\ candidates_df' = Append(candidates_df, row)
    /\ messages' = Append(messages,
                          Msg("warning: level not found", row["Candidate Name"]))
    /\ pc' = "done"
    /\ UNCHANGED <<uploaded_candidates_file, n_repo_files, repos, lowest,
                   final_results, report, download_offered>>

\* Lines 200-204: the row's level has no repository.
SkipUnknownLevel(row) ==
    /\ pc = "loop"
    /\ Len(candidates_df) < MaxCandidates
    /\ row["Level"] \notin DOMAIN repos
    /\ candidates_df' = Append(candidates_df, row)
    /\ messages' = Append(messages,
                          Msg("warning: level not found", row["Candidate Name"]))
    /\ UNCHANGED <<pc, uploaded_candidates_file, n_repo_files, repos, lowest,
                   final_results, report, download_offered>>

\* Lines 206-211: fewer than two lowest competencies.
SkipUndetermined(row) ==
    /\ pc = "loop"
    /\ Len(candidates_df) < MaxCandidates
    /\ row["Level"] \in DOMAIN repos
    /\ LET low == find_lowest_competencies(row, COMPETENCIES) IN
        /\ ~Truthy(low[1]) \/ ~Truthy(low[2])
        /\ lowest' = low
    /\ candidates_df' = Append(candidates_df, row)
    /\ messages' = Append(messages,
                          Msg("warning: could not determine two lowest",
                              row["Candidate Name"]))
    /\ UNCHANGED <<pc, uploaded_candidates_file, n_repo_files, repos,
                   final_results, report, download_offered>>

\* Lines 206-220: both selector calls return and the record is appended.
\* The second call works on the copy the first call has already filtered.
AppendRecord(row) ==
    /\ pc = "loop"
    /\ Len(candidates_df) < MaxCandidates
    /\ row["Level"] \in DOMAIN repos
    /\ LET low == find_lowest_competencies(row, COMPETENCIES)
           repo_df == repos[row["Level"]]
       IN
        /\ Truthy(low[1]) /\ Truthy(low[2])
        /\ lowest' = low
        /\ \E o1 \in get_random_tips(repo_df, low[1]) :
            /\ o1.exc = "none"
            /\ \E o2 \in get_random_tips(o1.repo_df, low[2]) :
                /\ o2.exc = "none"
                /\ final_results' = Append(final_results,
                      ("Candidate Name" :> row["Candidate Name"]) @@
                      ("Level" :> row["Level"]) @@
                      ("Lowest Competency 1" :> low[1]) @@
                      ("Tip 1 (70%)" :> o1.tip_70) @@
                      ("Tip 1 (20%)" :> o1.tip_20) @@
                      ("Lowest Competency 2" :> low[2]) @@
                      ("Tip 2 (70%)" :> o2.tip_70) @@
                      ("Tip 2 (20%)" :> o2.tip_20))
    /\ candidates_df' = Append(candidates_df, row)
    /\ UNCHANGED <<pc, uploaded_candidates_file, n_repo_files, repos, messages,
                   report, download_offered>>

\* Lines 213-214 and 233-234: a selector call raises; the handler's except
\* clause reports it and the request ends.
RaiseUnexpected(row) ==
    /\ pc = "loop"
    /\ Len(candidates_df) < MaxCandidates
    /\ row["Level"] \in DOMAIN repos
    /\ LET low == find_lowest_competencies(row, COMPETENCIES)
           repo_df == repos[row["Level"]]
       IN
        /\ Truthy(low[1]) /\ Truthy(low[2])
        /\ lowest' = low
        /\ \E o1 \in get_random_tips(repo_df, low[1]) :
            \/ o1.exc # "none"
            \/ \E o2 \in get_random_tips(o1.repo_df, low[2]) : o2.exc # "none"
    /\ candidates_df' = Append(candidates_df, row)
    /\ messages' = Append(messages, Msg("error: unexpected", None))
    /\ pc' = "done"
    /\ UNCHANGED <<uploaded_candidates_file, n_repo_files, repos, final_results,
                   report, download_offered>>

\* Lines 222-229: the sheet has no more rows and there are results.
FinishWithReport ==
    /\ pc = "loop"
    /\ final_results # <<>>
    /\ report' = generate_formatted_excel(final_results)
    /\ download_offered' = TRUE
    /\ messages' = Append(messages, Msg("success", None))
    /\ pc' = "done"
    /\ UNCHANGED <<uploaded_candidates_file, n_repo_files, repos, candidates_df,
                   lowest, final_results>>

\* Lines 230-231: the sheet has no more rows and there are no results.
FinishEmpty ==
    /\ pc = "loop"
    /\ final_results = <<>>
    /\ messages' = Append(messages, Msg("warning: no candidates were processed", None))
    /\ pc' = "done"
    /\ UNCHANGED <<uploaded_candidates_file, n_repo_files, repos, candidates_df,
                   lowest, final_results, report, download_offered>>

\* The click, with the files the uploaders hold.
Click ==
    /\ pc = "idle"
    /\ \E files \in Uploads :
        \/ ClickNoCandidates(files)
        \/ ClickWrongCount(files)
        \/ ClickUnidentified(files)
        \/ ClickLoaded(files)

\* One iteration of the for loop, on the next row of the candidate sheet.
ProcessRow ==
    /\ pc = "loop"
    /\ Len(candidates_df) < MaxCandidates
    /\ \E row \in CandidateRows(Len(candidates_df) + 1) :
        \/ SkipUnknownLevel(row)
        \/ SkipUndetermined(row)
        \/ AppendRecord(row)
        \/ RaiseUnexpected(row)

Init == HandlerIdle /\ RankerIdle /\ SelectorIdle

Next ==
    \/ /\ pc = "idle"
       /\ \E files \in Uploads : ClickNoCandidates(files)
       /\ UNCHANGED <<rankerVars, selectorVars>>
    \/ /\ pc = "idle"
       /\ \E files \in Uploads : ClickWrongCount(files)
       /\ UNCHANGED <<rankerVars, selectorVars>>
    \/ /\ pc = "idle"
       /\ \E files \in Uploads : ClickUnidentified(files)
       /\ UNCHANGED <<rankerVars, selectorVars>>
    \/ /\ pc = "idle"
       /\ \E files \in Uploads : ClickLoaded(files)
       /\ UNCHANGED <<rankerVars, selectorVars>>
    \/ /\ pc = "loop"
       /\ \E row \in CandidateRows(Len(candidates_df) + 1) : SkipUnknownLevel(row)
       /\ UNCHANGED <<rankerVars, selectorVars>>
    \/ /\ pc = "loop"
       /\ \E row \in CandidateRows(Len(candidates_df) + 1) : SkipUndetermined(row)
       /\ UNCHANGED <<rankerVars, selectorVars>>
    \/ /\ pc = "loop"
       /\ \E row \in CandidateRows(Len(candidates_df) + 1) : AppendRecord(row)
       /\ UNCHANGED <<rankerVars, selectorVars>>
    \/ /\ pc = "loop"
       /\ \E row \in CandidateRows(Len(candidates_df) + 1) : RaiseUnexpected(row)
       /\ UNCHANGED <<rankerVars, selectorVars>>
    \/ FinishWithReport /\ UNCHANGED <<rankerVars, selectorVars>>
    \/ FinishEmpty /\ UNCHANGED <<rankerVars, selectorVars>>

Spec == Init /\ [][Next]_vars

\* ------------------------------------- the ranker called on any score row
CompetencySet == {COMPETENCIES[i] : i \in 1..Len(COMPETENCIES)}

RankerRows == [CompetencySet -> {NaN} \cup (1..MaxScore)]

RankerInit ==
    /\ r_pc = "call"
    /\ r_row \in RankerRows
    /\ r_out = <<None, None>>

RankerCall ==
    /\ r_pc = "call"
    /\ r_out' = find_lowest_competencies(r_row, COMPETENCIES)
    /\ r_pc' = "returned"
    /\ UNCHANGED r_row

InitRanker == HandlerIdle /\ SelectorIdle /\ RankerInit

NextRanker == RankerCall /\ UNCHANGED <<handlerVars, selectorVars>>

SpecRanker == InitRanker /\ [][NextRanker]_vars

\* ------------------------------- the selector called on any small table
\* Competency-name cells of a tip table: NaN, the empty str, a cell of
\* blanks, and names in several spellings.
NameCells ==
    {NaNText, "", " ", "Leads People", " leads people ", "Manages Stakeholders"}

\* The competency the selector is asked for.
Targets == {"Leads People", "leads people", " Leads People ",
            "Manages Stakeholders", "", " "}

\* The tip texts of the i-th row, when the row has them.
TipText70 == <<"70% Tip A", "70% Tip B", "70% Tip C", "70% Tip D">>
TipText20 == <<"20% Tip X", "20% Tip Y", "20% Tip Z", "20% Tip W">>

\* Column labels as typed in the sheet: exact, or with blanks around one.
Headers ==
    {<<NameLabel, Tip70Label, Tip20Label>>,
     <<" Competency Name ", Tip70Label, Tip20Label>>,
     <<NameLabel, "70% Development Tips ", Tip20Label>>}

TipRows(n) ==
    {[i \in 1..n |-> <<c[i][1],
                       IF c[i][2] THEN TipText70[i] ELSE NaNText,
                       IF c[i][3] THEN TipText20[i] ELSE NaNText>>] :
        c \in [1..n -> NameCells \X BOOLEAN \X BOOLEAN]}

\* A column of NaN cells only may be float64 (as read_excel makes it) or
\* object; a column with text, or of a frame without rows, is object.
Dtypes(rows) ==
    IF rows # <<>> /\ \A i \in 1..Len(rows) : rows[i][1] = NaNText
    THEN {"object", "float64"} ELSE {"object"}

SelectorInit ==
    /\ t_pc = "call"
    /\ \E h \in Headers, n \in 0..MaxRows :
        \E r \in TipRows(n) :
            \E d \in Dtypes(r) :
                /\ t_repo_df = [columns |-> h, rows |-> r, dtype |-> d]
                /\ t_out = Raised("pending", [columns |-> h, rows |-> r, dtype |-> d])
    /\ t_competency \in Targets

SelectorCall ==
    /\ t_pc = "call"
    /\ t_out' \in get_random_tips(t_repo_df, t_competency)
    /\ t_pc' = "returned"
    /\ UNCHANGED <<t_repo_df, t_competency>>

InitSelector == HandlerIdle /\ RankerIdle /\ SelectorInit

NextSelector == SelectorCall /\ UNCHANGED <<handlerVars, rankerVars>>

SpecSelector == InitSelector /\ [][NextSelector]_vars

\* =================================================================== claims
\* The competencies of a row that carry a score.
DefinedScores(row) == {c \in CompetencySet : row[c] # NaN}

\* The place of a competency in the fixed enumeration.
Position(c) == CHOOSE i \in 1..Len(COMPETENCIES) : COMPETENCIES[i] = c

\* a comes before b in the ascending stable order of row's scores.
RankedBefore(row, a, b) ==
    \/ row[a] < row[b]
    \/ row[a] = row[b] /\ Position(a) < Position(b)

\* The records of final_results made for the candidate called who.
RecordsOf(who) ==
    {i \in 1..Len(final_results) : final_results[i]["Candidate Name"] = who}

\* The warnings issued for the candidate called who.
WarningsOf(kind, who) ==
    {i \in 1..Len(messages) : messages[i] = Msg(kind, who)}

\* The request ended at the end of the loop, not in the except clause.
CompletedNormally ==
    /\ pc = "done"
    /\ messages # <<>>
    /\ messages[Len(messages)].kind \in
           {"success", "warning: no candidates were processed"}

\* The request was ended by the except clause.
Aborted ==
    /\ pc = "done"
    /\ messages # <<>>
    /\ messages[Len(messages)].kind = "error: unexpected"

\* C1: with at least two defined scores the ranker returns two distinct
\* competencies that carry a score, the first ranked before every other
\* defined competency and the second before every defined competency but the
\* first, in the order ascending by score and, among equal scores, by place
\* in the fixed enumeration.
C1_LowestTwoStable ==
    (r_pc = "returned" /\ Cardinality(DefinedScores(r_row)) >= 2) =>
        LET l1 == r_out[1]
            l2 == r_out[2]
            D == DefinedScores(r_row)
        IN  /\ l1 \in D
            /\ l2 \in D
            /\ l1 # l2
            /\ r_row[l1] <= r_row[l2]
            /\ \A c \in D \ {l1} : RankedBefore(r_row, l1, c)
            /\ \A c \in D \ {l1, l2} : RankedBefore(r_row, l2, c)

\* A call on a row with a missing score placed before the lowest ones, and
\* three equal lowest scores.
C1_Witness ==
    /\ r_pc = "returned"
    /\ r_row["Manages Stakeholders"] = NaN
    /\ r_row["Steers Change"] = 2
    /\ r_row["Leads People"] = 1
    /\ r_row["Drives Results"] = 1
    /\ r_row["Solves Challenges"] = 1
    /\ r_out = <<"Leads People", "Drives Results">>

\* C2: a candidate with fewer than two defined scores gets None for exactly
\* the missing slots, no record, and a warning, and the loop goes on.
C2_UndeterminedSkipped ==
    /\ \A i \in 1..Len(candidates_df) :
         LET row == candidates_df[i] IN
         Cardinality(DefinedScores(row)) < 2 =>
            /\ RecordsOf(row["Candidate Name"]) = {}
            /\ \/ WarningsOf("warning: could not determine two lowest",
                             row["Candidate Name"]) # {}
               \/ WarningsOf("warning: level not found",
                             row["Candidate Name"]) # {}
    /\ LET k == Len(candidates_df) IN
       (k > 0 /\ Cardinality(DefinedScores(candidates_df[k])) < 2) =>
          /\ pc = "loop" \/ CompletedNormally
          /\ candidates_df[k]["Level"] \in DOMAIN repos =>
                LET D == DefinedScores(candidates_df[k]) IN
                /\ D = {} => lowest = <<None, None>>
                /\ D # {} => lowest = <<CHOOSE c \in D : TRUE, None>>

\* A candidate with one score was skipped with a warning and the next
\* candidate got a record.
C2_Witness ==
    /\ Len(candidates_df) = 2
    /\ Cardinality(DefinedScores(candidates_df[1])) = 1
    /\ candidates_df[1]["Level"] \in DOMAIN repos
    /\ WarningsOf("warning: could not determine two lowest",
                  candidates_df[1]["Candidate Name"]) # {}
    /\ RecordsOf(candidates_df[2]["Candidate Name"]) # {}

\* The tips a repository holds for a competency in one tier's column: the
\* text cells of that column in the rows whose name is text and equals the
\* competency after trimming and lower-casing.
TipsHeld(df, competency, label) ==
    {df.rows[i][ColumnOf(df, label)] : i \in
        {j \in 1..Len(df.rows) :
            /\ df.rows[j][ColumnOf(df, NameLabel)] # NaNText
            /\ strip_lower[df.rows[j][ColumnOf(df, NameLabel)]]
                  = strip_lower[competency]
            /\ df.rows[j][ColumnOf(df, label)] # NaNText}}

\* C3: every tip of every record is the sentinel or a tip the repository of
\* the candidate's own level holds for the matching lowest competency in
\* the matching tier's column.
C3_TipsFromOwnLevelRow ==
    \A i \in 1..Len(final_results) :
        LET rec == final_results[i]
            df == repos[rec["Level"]]
        IN  /\ \E j \in 1..Len(candidates_df) :
                  /\ candidates_df[j]["Candidate Name"] = rec["Candidate Name"]
                  /\ candidates_df[j]["Level"] = rec["Level"]
            /\ rec["Tip 1 (70%)"] \in
                  {Sentinel} \cup TipsHeld(df, rec["Lowest Competency 1"], Tip70Label)
            /\ rec["Tip 1 (20%)"] \in
                  {Sentinel} \cup TipsHeld(df, rec["Lowest Competency 1"], Tip20Label)
            /\ rec["Tip 2 (70%)"] \in
                  {Sentinel} \cup TipsHeld(df, rec["Lowest Competency 2"], Tip70Label)
            /\ rec["Tip 2 (20%)"] \in
                  {Sentinel} \cup TipsHeld(df, rec["Lowest Competency 2"], Tip20Label)

\* Two records of different levels, one with real tips for its first
\* competency and the sentinel for its second, one the other way round.
C3_Witness ==
    /\ Len(final_results) = 2
    /\ final_results[1]["Level"] # final_results[2]["Level"]
    /\ final_results[1]["Tip 1 (70%)"] # Sentinel
    /\ final_results[1]["Tip 1 (20%)"] # Sentinel
    /\ final_results[1]["Tip 2 (70%)"] = Sentinel
    /\ final_results[2]["Tip 1 (20%)"] = Sentinel
    /\ final_results[2]["Tip 2 (20%)"] # Sentinel

\* A competency-name cell that is undefined, empty or only whitespace.
IsBlankName(cell) == cell = NaNText \/ strip(Chars[cell]) = <<>>

\* C4: no tip of a row with a blank competency name is in either candidate
\* list, whatever competency is asked for.
C4_BlankRowsNeverMatch ==
    (t_pc = "returned" /\ t_out.exc = "none") =>
        \A i \in 1..Len(t_repo_df.rows) :
            IsBlankName(t_repo_df.rows[i][1]) =>
                /\ \A k \in 1..Len(t_out.tips_70) : t_out.tips_70[k] # TipText70[i]
                /\ \A k \in 1..Len(t_out.tips_20) : t_out.tips_20[k] # TipText20[i]

\* The list of the text cells of a column in the rows whose name is text
\* and equals the target after trimming and lower-casing, in row order.
MatchingTips(df, target, col) ==
    LET F[i \in 0..Len(df.rows)] ==
            IF i = 0 THEN <<>>
            ELSE IF /\ df.rows[i][1] # NaNText
                    /\ strip_lower[df.rows[i][1]] = strip_lower[target]
                    /\ df.rows[i][col] # NaNText
                 THEN Append(F[i - 1], df.rows[i][col])
                 ELSE F[i - 1]
    IN  F[Len(df.rows)]

\* C5: the candidate lists are those of the rows whose trimmed, lower-cased
\* name equals the trimmed, lower-cased target, and every target equal to
\* this one after trimming and lower-casing gives the same two lists.
C5_MatchingIgnoresCaseAndBlanks ==
    (t_pc = "returned" /\ t_out.exc = "none") =>
        /\ t_out.tips_70 = MatchingTips(t_repo_df, t_competency, 2)
        /\ t_out.tips_20 = MatchingTips(t_repo_df, t_competency, 3)
        /\ \A other \in Targets :
              strip_lower[other] = strip_lower[t_competency] =>
                 \A o \in get_random_tips(t_repo_df, other) :
                    /\ o.exc = "none"
                    /\ o.tips_70 = t_out.tips_70
                    /\ o.tips_20 = t_out.tips_20

\* A padded, capitalised target matched a padded lower-case cell and an
\* exactly spelled one.
C5_Witness ==
    /\ t_pc = "returned"
    /\ t_out.exc = "none"
    /\ t_competency = " Leads People "
    /\ Len(t_repo_df.rows) = 2
    /\ t_repo_df.rows[1][1] = " leads people "
    /\ t_repo_df.rows[2][1] = "Leads People"
    /\ t_out.tips_70 = <<"70% Tip A", "70% Tip B">>

\* C6: on a table with the exact column labels the selector returns a value
\* for each tier: the sentinel when the matching rows hold no tip of the
\* tier (also when no row matches), else one of the tips they hold.
C6_AlwaysReturnsPerTier ==
    (t_pc = "returned" /\ t_repo_df.columns = <<NameLabel, Tip70Label, Tip20Label>>) =>
        /\ t_out.exc = "none"
        /\ IF TipsHeld(t_repo_df, t_competency, Tip70Label) = {}
           THEN t_out.tip_70 = Sentinel
           ELSE t_out.tip_70 \in TipsHeld(t_repo_df, t_competency, Tip70Label)
        /\ IF TipsHeld(t_repo_df, t_competency, Tip20Label) = {}
           THEN t_out.tip_20 = Sentinel
           ELSE t_out.tip_20 \in TipsHeld(t_repo_df, t_competency, Tip20Label)

\* C7: a candidate whose level has no repository gets no record and a
\* warning, the loop goes on, and the candidates with a loaded level and two
\* defined scores have their records.
C7_UnknownLevelSkipped ==
    /\ \A i \in 1..Len(candidates_df) :
         LET row == candidates_df[i] IN
         (pc # "idle" /\ row["Level"] \notin DOMAIN repos) =>
            /\ RecordsOf(row["Candidate Name"]) = {}
            /\ WarningsOf("warning: level not found", row["Candidate Name"]) # {}
    /\ LET k == Len(candidates_df) IN
       (k > 0 /\ candidates_df[k]["Level"] \notin DOMAIN repos) =>
          (pc = "loop" \/ CompletedNormally)
    /\ ~Aborted =>
         \A i \in 1..Len(candidates_df) :
            LET row == candidates_df[i] IN
            (row["Level"] \in DOMAIN repos /\ Cardinality(DefinedScores(row)) >= 2)
               => Cardinality(RecordsOf(row["Candidate Name"])) = 1

\* A candidate of level Explore was skipped with a warning and the candidate
\* after it got a record.
C7_Witness ==
    /\ Len(candidates_df) = 2
    /\ candidates_df[1]["Level"] = "Explore"
    /\ DOMAIN repos = {"Apply", "Guide", "Shape"}
    /\ WarningsOf("warning: level not found", candidates_df[1]["Candidate Name"]) # {}
    /\ RecordsOf(candidates_df[2]["Candidate Name"]) # {}

\* The label a column label is once its surrounding whitespace is removed.
StrippedLabel(label) ==
    IF \E l \in {NameLabel, Tip70Label, Tip20Label} : Chars[l] = strip(Chars[label])
    THEN CHOOSE l \in {NameLabel, Tip70Label, Tip20Label} : Chars[l] = strip(Chars[label])
    ELSE label

\* C8: the selector gives on a table what it gives on the same table with
\* the whitespace around its column labels removed.
C8_HeadersNormalized ==
    t_pc = "returned" =>
        \E o \in get_random_tips(
                    [t_repo_df EXCEPT !.columns =
                        [i \in 1..Len(t_repo_df.columns) |->
                            StrippedLabel(t_repo_df.columns[i])]],
                    t_competency) :
            /\ o.exc = t_out.exc
            /\ o.tip_70 = t_out.tip_70
            /\ o.tip_20 = t_out.tip_20

\* The message is one of the blocking errors.
IsBlockingError(m) ==
    m.kind \in {"error: upload the candidate file",
                "error: upload exactly 3 repositories",
                "error: could not identify the files"}

\* C9: without a candidate file, with a number of repository files other
\* than three, or without all of Apply, Guide and Shape identified, the
\* click reports an error and nothing else happens; rows are processed only
\* with a candidate file and exactly the three levels loaded.
C9_BlockingErrors ==
    /\ (pc # "idle" /\ (\/ uploaded_candidates_file = None
                       \/ n_repo_files # 3
                       \/ DOMAIN repos # {"Apply", "Guide", "Shape"})) =>
          /\ pc = "done"
          /\ Len(messages) = 1
          /\ IsBlockingError(messages[1])
          /\ candidates_df = <<>>
          /\ final_results = <<>>
          /\ report = <<>>
          /\ ~download_offered
    /\ (pc = "loop" \/ candidates_df # <<>> \/ final_results # <<>> \/ download_offered) =>
          /\ uploaded_candidates_file # None
          /\ n_repo_files = 3
          /\ DOMAIN repos = {"Apply", "Guide", "Shape"}

\* Three files were uploaded with a candidate file, and only two levels
\* could be identified.
C9_Witness ==
    /\ pc = "done"
    /\ uploaded_candidates_file # None
    /\ n_repo_files = 3
    /\ Cardinality(DOMAIN repos) = 2
    /\ messages = <<Msg("error: could not identify the files", None)>>

\* The rows that are to get a record.
Eligible(row) ==
    /\ row["Level"] \in DOMAIN repos
    /\ Cardinality(DefinedScores(row)) >= 2

\* C10: when the request completes normally the records are those of the
\* eligible candidates, one each, in the order of the rows, each with the
\* candidate's name and level, and the report has them in the same order.
C10_RecordsAreEligibleRowsInOrder ==
    CompletedNormally =>
        LET expected == SelectSeq(candidates_df, Eligible) IN
        /\ Len(final_results) = Len(expected)
        /\ \A i \in 1..Len(expected) :
              /\ final_results[i]["Candidate Name"] = expected[i]["Candidate Name"]
              /\ final_results[i]["Level"] = expected[i]["Level"]
        /\ download_offered <=> expected # <<>>
        /\ Len(report) = Len(expected)
        /\ \A i \in 1..Len(report) :
              /\ report[i].B3 = expected[i]["Candidate Name"]
              /\ report[i].B4 = expected[i]["Level"]

\* A request over two eligible candidates completed with a report.
C10_Witness ==
    /\ CompletedNormally
    /\ Len(candidates_df) = 2
    /\ Len(final_results) = 2
    /\ download_offered

====
